---------------------------- MODULE Spec2Model ----------------------------
(***************************************************************************)
(* A model of src/updater.py: the Updater worker thread (run / update and  *)
(* the stages it calls), the UI thread calling proceed() and cancel(), the *)
(* condition that coordinates them, and the part of the file system the    *)
(* updater reads and writes.                                               *)
(*                                                                         *)
(* Paths are logical names relative to the base directory (Updater.path    *)
(* joins the base with the name; the base is not an OS X application       *)
(* bundle here).  The xbit list only decides archive and file modes and is *)
(* left out.  The archive a download produced is read entry by entry: the  *)
(* entry count is fixed by the first pass of unpack and each entry is      *)
(* chosen when the second pass reads it.                                   *)
(***************************************************************************)
EXTENDS Integers, Sequences, FiniteSets, TLC

\* ------------------------------------------------------------- bounds
\* Most lines the delta tool prints during one download.
MaxLines == 2
\* Most entries in one downloaded archive.
MaxEntries == 2

\* ------------------------------------------------------------- universe
Modules == {"m1", "m2"}
Files == {"a", "d/x"}
Dirs == {"d", "d/e"}
Versions == {1, 2}
\* Percentages the delta tool reports in a PROGRESS line.
Pcts == {0, 50, 100}

\* The directory a path lives in ("" is the base directory itself).
Parent(p) ==
    CASE p = "a" -> ""
      [] p = "d" -> ""
      [] p = "d/x" -> "d"
      [] p = "d/e" -> "d"

\* Position of a path in Python's string order: "a" < "d" < "d/e" < "d/x".
Rank(p) ==
    CASE p = "a" -> 1
      [] p = "d" -> 2
      [] p = "d/e" -> 3
      [] p = "d/x" -> 4

\* The states of Updater.state.
ERROR == "ERROR"
CHECKING == "CHECKING"
UPDATE_NOT_AVAILABLE == "UPDATE NOT AVAILABLE"
UPDATE_AVAILABLE == "UPDATE AVAILABLE"
PREPARING == "PREPARING"
DOWNLOADING == "DOWNLOADING"
UNPACKING == "UNPACKING"
FINISHING == "FINISHING"
DONE == "DONE"
CANCELLED == "CANCELLED"

Terminal == {UPDATE_NOT_AVAILABLE, ERROR, CANCELLED, DONE}

\* A module's entry of a snapshot or of the server manifest; NoEntry stands
\* for a name that is not a key of the mapping.
NoEntry == [present |-> FALSE, version |-> 0, files |-> {}, directories |-> {}]
Entry(v, fs, ds) == [present |-> TRUE, version |-> v, files |-> fs, directories |-> ds]

\* What installation left on disk for each module.
InstalledEntry(m) ==
    IF m = "m1" THEN Entry(1, {"a"}, {}) ELSE Entry(1, {"d/x"}, {"d", "d/e"})

\* The entries a new archive's update/current.json may carry for a module.
PayloadEntries == { Entry(2, {"a", "d/x"}, {"d"}), Entry(2, {}, {}) }

\* The snapshots an archive's update/current.json may hold: one that gives every
\* module the same new entry, or one that lacks the modules.
Payloads == { [m \in Modules |-> e] : e \in PayloadEntries \cup {NoEntry} }

\* progress: None, or a fraction <<numerator, denominator>> in lowest terms.
None == <<>>

RECURSIVE GCD(_, _)
GCD(a, b) == IF b = 0 THEN a ELSE GCD(b, a % b)

Abs(n) == IF n < 0 THEN -n ELSE n

Frac(n, d) ==
    LET g == GCD(Abs(n), Abs(d))
    IN IF n = 0 THEN <<0, 1>> ELSE <<n \div g, d \div g>>

VARIABLES
    \* fields of the Updater the UI observes
    state, message, progress, can_cancel, can_proceed, cancelled, proceeded,
    \* other fields of the Updater
    force, current_state, updates, modules, new_state, moves,
    \* the worker thread: where it is, the exception it is handling, its locals
    pc, exc, mi, idx, total, start_progress, tool_left, old_files, old_directories,
    \* the condition's lock and the UI thread's position in proceed() / cancel()
    lock, uipc,
    \* the disk: update/current.json, installed files, .new sidecars, directories,
    \* directories holding files no manifest lists, and the update directory
    current_json, disk, sidecar, dirs, extra, seeds, archives, zsyncs,
    \* history, for the properties only
    hist

vars == <<state, message, progress, can_cancel, can_proceed, cancelled, proceeded,
          force, current_state, updates, modules, new_state, moves,
          pc, exc, mi, idx, total, start_progress, tool_left, old_files,
          old_directories, lock, uipc,
          current_json, disk, sidecar, dirs, extra, seeds, archives, zsyncs, hist>>

observed == <<state, message, progress, can_cancel, can_proceed>>
flags == <<cancelled, proceeded>>
fields == <<force, current_state, updates, modules, new_state, moves>>
locals == <<mi, idx, total, start_progress, tool_left, old_files, old_directories>>
install == <<current_json, disk, sidecar, dirs, extra>>
updatedir == <<seeds, archives, zsyncs>>

\* A snapshot with no module at all.
EmptySnapshot == [m \in Modules |-> NoEntry]

\* History: the snapshot, files and directories at session start, and what the
\* run did so far.
InitHist(snap, d, ds) ==
    [ json0 |-> snap, disk0 |-> d, dirs0 |-> ds,
      waited |-> FALSE,          \* the worker blocked in condition.wait()
      early_cancel |-> FALSE,    \* cancelled was set before state became UNPACKING
      bad_digest |-> FALSE,      \* a download left an archive with a wrong digest
      raw |-> -1,                \* last percentage of the tool's current phase
      built |-> {},              \* modules whose seed archive was created
      ops |-> <<>>,              \* the calls of prepare, download, unpack, in order
      seed_args |-> <<>>,        \* modules whose seed the last tool run got with -i
      payload |-> [m \in Modules |-> EmptySnapshot],  \* last payload read per module
      has_payload |-> {},        \* modules whose archive carried a payload
      finishing |-> FALSE,       \* the worker has set state to FINISHING
      saves |-> 0,               \* writes of update/current.json
      moved |-> 0,               \* renames performed by move_files
      pruned |-> FALSE,          \* delete_obsolete has run to its end
      removed |-> <<>> ]         \* unlink / rmdir calls of delete_obsolete, in order

\* ------------------------------------------------------------- __init__
Init ==
    /\ state = CHECKING
    /\ message = "None"
    /\ progress = None
    /\ can_cancel = TRUE
    /\ can_proceed = FALSE
    /\ cancelled = FALSE
    /\ proceeded = FALSE
    /\ force \in BOOLEAN
    /\ current_state = EmptySnapshot
    /\ updates = EmptySnapshot
    /\ modules = <<>>
    /\ new_state = EmptySnapshot
    /\ moves = <<>>
    /\ pc = "load_state"
    /\ exc = "none"
    /\ mi = 0 /\ idx = 0 /\ total = 0
    /\ start_progress = -1
    /\ tool_left = 0
    /\ old_files = <<>> /\ old_directories = <<>>
    /\ lock = "free"
    /\ uipc = "idle"
    /\ \E inst \in SUBSET Modules, exists \in BOOLEAN :
          LET snap == [m \in Modules |-> IF m \in inst THEN InstalledEntry(m) ELSE NoEntry]
              fs == UNION { snap[m].files : m \in Modules }
              ds == UNION { snap[m].directories : m \in Modules }
              d0 == [f \in Files |-> IF f \in fs THEN "old" ELSE "none"]
          IN /\ exists \/ inst = {}
             /\ current_json = [exists |-> exists, data |-> snap]
             /\ disk = d0
             /\ dirs = ds
             /\ extra \in {{}, {"d"} \cap ds}
             /\ hist = InitHist([exists |-> exists, data |-> snap], d0, ds)
    /\ sidecar = [f \in Files |-> "none"]
    /\ seeds = {}
    /\ archives = [m \in Modules |-> "none"]
    /\ zsyncs = {}


\* ------------------------------------------------------------- exceptions
\* An exception leaves update() and the function it was raised in: their local
\* variables are gone.
ResetLocals ==
    /\ mi' = 0 /\ idx' = 0 /\ total' = 0
    /\ start_progress' = -1
    /\ tool_left' = 0
    /\ old_files' = <<>> /\ old_directories' = <<>>

\* raise UpdateCancelled(): control passes to the handler at run(), line 183.
RaiseCancelled ==
    /\ pc' = "cancelled_can_cancel"
    /\ exc' = "UpdateCancelled"
    /\ ResetLocals

\* raise UpdateError(msg): control passes to the handler at run(), line 190.
RaiseError(msg) ==
    /\ pc' = "error_message"
    /\ exc' = msg
    /\ ResetLocals

\* Any other exception: control passes to the handler at run(), line 196.
RaiseException(msg) ==
    /\ pc' = "exception_message"
    /\ exc' = msg
    /\ ResetLocals

\* The worker goes on to the statement p.
Goto(p) ==
    /\ pc' = p
    /\ exc' = exc

\* The worker goes on to the statement p, its local variables as they are.
Continue(p) ==
    /\ Goto(p)
    /\ UNCHANGED locals

\* ------------------------------------------------------------- CHECKING
load_state ==
    /\ pc = "load_state"
    /\ IF ~current_json.exists
       THEN /\ RaiseError("update status file was deleted")
            /\ UNCHANGED current_state
       ELSE /\ current_state' = current_json.data
            /\ Continue("test_write")
    /\ UNCHANGED <<observed, flags, force, updates, modules, new_state, moves,
                   lock, uipc, install, updatedir, hist>>

\* The account may lack the permission to write test.txt or log.txt.
test_write ==
    /\ pc = "test_write"
    /\ \E permitted \in BOOLEAN :
          IF permitted
          THEN Continue("check_updates")
          ELSE RaiseError("no permission to perform an update")
    /\ UNCHANGED <<observed, flags, fields, lock, uipc, install, updatedir, hist>>

\* The server manifests urlretrieve may bring: per module no entry, or a version.
ServerManifests ==
    [Modules -> {NoEntry} \cup { Entry(v, {}, {}) : v \in Versions }]

check_updates ==
    /\ pc = "check_updates"
    /\ \/ /\ updates' \in ServerManifests
          /\ Continue("check_versions")
       \/ /\ RaiseException("IOError")
          /\ UNCHANGED updates
    /\ UNCHANGED <<observed, flags, force, current_state, modules, new_state, moves,
                   lock, uipc, install, updatedir, hist>>

\* The names check_versions appends to self.modules.
\* A check_versions that ignores the force flag.
StaleSetNoForce(cs, up, f) ==
    { m \in Modules : /\ cs[m].present
                      /\ up[m].present
                      /\ cs[m].version # up[m].version }

StaleSet(cs, up, f) ==
    { m \in Modules : /\ cs[m].present
                      /\ up[m].present
                      /\ (cs[m].version # up[m].version \/ f) }

\* The lists holding each member of S once (a dict is iterated in any order).
Orders(S) ==
    { q \in UNION { [1..n -> S] : n \in {Cardinality(S)} } :
        \A i, j \in DOMAIN q : i # j => q[i] # q[j] }

check_versions ==
    /\ pc = "check_versions"
    /\ modules' \in Orders(StaleSet(current_state, updates, force))
    /\ Goto("update_218")
    /\ UNCHANGED <<observed, flags, force, current_state, updates, new_state, moves,
                   locals, lock, uipc, install, updatedir, hist>>

\* update(), line 218: if not self.modules
update_218 ==
    /\ pc = "update_218"
    /\ IF modules = <<>> THEN Goto("una_can_cancel") ELSE Goto("condition_acquire")
    /\ UNCHANGED <<observed, flags, fields, locals, lock, uipc, install, updatedir, hist>>

\* One write of an observed field by the worker, at statement p, going on to q.
Write(p, q, st, msg, prog, cc, cp) ==
    /\ pc = p
    /\ Goto(q)
    /\ state' = st
    /\ message' = msg
    /\ progress' = prog
    /\ can_cancel' = cc
    /\ can_proceed' = cp
    /\ UNCHANGED <<flags, fields, locals, lock, uipc, install, updatedir, hist>>

\* update(), lines 219-222
una_can_cancel ==
    Write("una_can_cancel", "una_can_proceed", state, message, progress, FALSE, can_proceed)

una_can_proceed ==
    Write("una_can_proceed", "una_state", state, message, progress, can_cancel, TRUE)

una_state ==
    Write("una_state", "clean_old_end", UPDATE_NOT_AVAILABLE, message, progress,
          can_cancel, can_proceed)

\* ------------------------------------------------------------- run(): handlers
\* run(), lines 183-188
cancelled_can_cancel ==
    Write("cancelled_can_cancel", "cancelled_can_proceed", state, message, progress,
          TRUE, can_proceed)

cancelled_can_proceed ==
    Write("cancelled_can_proceed", "cancelled_progress", state, message, progress,
          can_cancel, FALSE)

cancelled_progress ==
    Write("cancelled_progress", "cancelled_message", state, message, None,
          can_cancel, can_proceed)

cancelled_message ==
    Write("cancelled_message", "cancelled_state", state, "None", progress,
          can_cancel, can_proceed)

cancelled_state ==
    Write("cancelled_state", "clean_old_end", CANCELLED, message, progress,
          can_cancel, can_proceed)

\* run(), lines 190-194
error_message ==
    Write("error_message", "error_can_cancel", state, exc, progress, can_cancel, can_proceed)

error_can_cancel ==
    Write("error_can_cancel", "error_can_proceed", state, message, progress, TRUE, can_proceed)

error_can_proceed ==
    Write("error_can_proceed", "error_state", state, message, progress, can_cancel, FALSE)

error_state ==
    Write("error_state", "clean_old_end", ERROR, message, progress, can_cancel, can_proceed)

\* run(), lines 196-203
exception_message ==
    Write("exception_message", "error_can_cancel", state, exc, progress,
          can_cancel, can_proceed)

\* A clean_old that removes nothing.
SkipCleanOld == seeds

\* clean(fn) for fn = i + ".update", every i in self.modules.
CleanOld == seeds \ { modules[i] : i \in DOMAIN modules }

\* run(), line 205: self.clean_old(); the thread ends.
clean_old_end ==
    /\ pc = "clean_old_end"
    /\ seeds' = CleanOld
    /\ Goto("finished")
    /\ UNCHANGED <<observed, flags, fields, locals, lock, uipc, install,
                   archives, zsyncs, hist>>


\* ------------------------------------------------------------- the condition
\* A flag set without notify_all(): the blocked worker stays blocked.
NoNotify == pc

\* condition.notify_all(): a worker blocked in wait() becomes ready to take the
\* lock again.
NotifyAll == IF pc = "waiting" THEN "wait_reacquire" ELSE pc

\* ------------------------------------------------------------- UPDATE_AVAILABLE
\* update(), line 225: with self.condition
condition_acquire ==
    /\ pc = "condition_acquire"
    /\ lock = "free"
    /\ lock' = "worker"
    /\ Goto("ua_can_cancel")
    /\ UNCHANGED <<observed, flags, fields, locals, uipc, install, updatedir, hist>>

\* update(), lines 226-228
ua_can_cancel ==
    Write("ua_can_cancel", "ua_can_proceed", state, message, progress, TRUE, can_proceed)

ua_can_proceed ==
    Write("ua_can_proceed", "ua_state", state, message, progress, can_cancel, TRUE)

ua_state ==
    Write("ua_state", "update_231", UPDATE_AVAILABLE, message, progress,
          can_cancel, can_proceed)

\* An update() that leaves the loop without waiting for a flag.
update_231_nowait ==
    /\ pc = "update_231"
    /\ lock' = "free"
    /\ Goto("update_236")
    /\ UNCHANGED <<observed, flags, fields, locals, uipc, install, updatedir, hist>>

\* update(), lines 230-234: leave the loop (and the with block, releasing the
\* lock) once a flag is set; otherwise wait(), which releases the lock and blocks.
update_231 ==
    /\ pc = "update_231"
    /\ lock' = "free"
    /\ IF cancelled \/ proceeded
       THEN /\ Goto("update_236")
            /\ UNCHANGED hist
       ELSE /\ Goto("waiting")
            /\ hist' = [hist EXCEPT !.waited = TRUE]
    /\ UNCHANGED <<observed, flags, fields, locals, uipc, install, updatedir>>

\* condition.wait() returning: the notified worker takes the lock again.
wait_reacquire ==
    /\ pc = "wait_reacquire"
    /\ lock = "free"
    /\ lock' = "worker"
    /\ Goto("update_231")
    /\ UNCHANGED <<observed, flags, fields, locals, uipc, install, updatedir, hist>>

\* update(), lines 236-240
update_236 ==
    /\ pc = "update_236"
    /\ IF cancelled
       THEN /\ RaiseCancelled
            /\ UNCHANGED new_state
       ELSE /\ Continue("prepare_progress")
            /\ new_state' = current_state
    /\ UNCHANGED <<observed, flags, force, current_state, updates, modules, moves,
                   lock, uipc, install, updatedir, hist>>

\* ------------------------------------------------------------- the UI thread
\* The states in which the worker has not reached UNPACKING.
BeforeUnpacking == {CHECKING, UPDATE_AVAILABLE, PREPARING, DOWNLOADING}

\* cancel(), line 310
cancel_310 ==
    /\ uipc = "idle"
    /\ uipc' = IF can_cancel THEN "cancel_313" ELSE "idle"
    /\ UNCHANGED <<observed, flags, fields, pc, exc, locals, lock, install, updatedir, hist>>

\* cancel(), lines 313-315: with self.condition (entered when the lock is free
\* and left at once), set the flag and notify.
cancel_313 ==
    /\ uipc = "cancel_313"
    /\ lock = "free"
    /\ cancelled' = TRUE
    /\ pc' = NotifyAll
    /\ uipc' = "idle"
    /\ hist' = [hist EXCEPT !.early_cancel = @ \/ (state \in BeforeUnpacking /\ can_cancel)]
    /\ UNCHANGED <<observed, proceeded, fields, exc, locals, lock, install, updatedir>>

\* proceed(), line 284
proceed_284 ==
    /\ uipc = "idle"
    /\ uipc' = IF can_proceed THEN "proceed_287" ELSE "idle"
    /\ UNCHANGED <<observed, flags, fields, pc, exc, locals, lock, install, updatedir, hist>>

\* A proceed() that sets the flag in whatever state it is called.
proceed_287_any ==
    /\ uipc = "proceed_287"
    /\ uipc' = "proceed_304"
    /\ UNCHANGED <<observed, flags, fields, pc, exc, locals, lock, install, updatedir, hist>>

\* proceed(), lines 287-303: the chain of comparisons of self.state.  A terminal
\* state is never left, so the chain reaches line 303 and finds UPDATE_AVAILABLE
\* exactly when the read at line 303 does.
proceed_287 ==
    /\ uipc = "proceed_287"
    /\ uipc' = IF state = UPDATE_AVAILABLE THEN "proceed_304" ELSE "idle"
    /\ UNCHANGED <<observed, flags, fields, pc, exc, locals, lock, install, updatedir, hist>>

\* proceed(), lines 304-306: with self.condition (entered when the lock is free
\* and left at once), set the flag and notify.
proceed_304 ==
    /\ uipc = "proceed_304"
    /\ lock = "free"
    /\ proceeded' = TRUE
    /\ pc' = NotifyAll
    /\ uipc' = "idle"
    /\ UNCHANGED <<observed, cancelled, fields, exc, locals, lock, install, updatedir, hist>>

\* ------------------------------------------------------------- PREPARING
\* The module the current loop of update() is at.
Module == modules[mi]

\* update(), lines 242-243
prepare_progress ==
    Write("prepare_progress", "prepare_state", state, message, Frac(0, 1),
          can_cancel, can_proceed)

prepare_state ==
    /\ pc = "prepare_state"
    /\ state' = PREPARING
    /\ mi' = 1
    /\ Goto("prepare_411")
    /\ UNCHANGED <<message, progress, can_cancel, can_proceed, flags, fields,
                   idx, total, start_progress, tool_left, old_files, old_directories,
                   lock, uipc, install, updatedir, hist>>

\* prepare(), lines 411-423: the names to archive (files and directories, then
\* "update" and "update/current.json"); the seed archive is created.
prepare_411 ==
    /\ pc = "prepare_411"
    /\ total' = Cardinality(current_state[Module].files)
                  + Cardinality(current_state[Module].directories) + 2
    /\ idx' = 0
    /\ seeds' = seeds \cup {Module}
    /\ hist' = [hist EXCEPT !.built = @ \cup {Module},
                            !.ops = Append(@, <<"prepare", Module>>)]
    /\ Goto("prepare_425")
    /\ UNCHANGED <<observed, flags, fields, mi, start_progress, tool_left,
                   old_files, old_directories, lock, uipc, install, archives, zsyncs>>

\* prepare(), lines 425-465: one iteration; the member goes into the seed archive.
prepare_425 ==
    /\ pc = "prepare_425"
    /\ idx < total
    /\ IF cancelled
       THEN /\ RaiseCancelled
            /\ UNCHANGED progress
       ELSE /\ progress' = Frac(idx, total)
            /\ idx' = idx + 1
            /\ Goto("prepare_425")
            /\ UNCHANGED <<mi, total, start_progress, tool_left, old_files,
                           old_directories>>
    /\ UNCHANGED <<state, message, can_cancel, can_proceed, flags, fields, lock, uipc,
                   install, updatedir, hist>>

\* An update() that goes on to the downloads after the first prepare.
prepare_467_first ==
    /\ pc = "prepare_425"
    /\ idx = total
    /\ mi' = 0
    /\ Goto("download_progress")
    /\ idx' = 0
    /\ total' = 0
    /\ UNCHANGED <<observed, flags, fields, start_progress, tool_left,
                   old_files, old_directories, lock, uipc, install, updatedir, hist>>

\* prepare(), line 467, and update(), lines 245-246: the next module, if any.
prepare_467 ==
    /\ pc = "prepare_425"
    /\ idx = total
    /\ IF mi < Len(modules)
       THEN /\ mi' = mi + 1
            /\ Goto("prepare_411")
       ELSE /\ mi' = 0
            /\ Goto("download_progress")
    /\ idx' = 0
    /\ total' = 0
    /\ UNCHANGED <<observed, flags, fields, start_progress, tool_left,
                   old_files, old_directories, lock, uipc, install, updatedir, hist>>


\* ------------------------------------------------------------- DOWNLOADING
\* update(), lines 248-249
download_progress ==
    Write("download_progress", "download_state", state, message, Frac(0, 1),
          can_cancel, can_proceed)

download_state ==
    /\ pc = "download_state"
    /\ state' = DOWNLOADING
    /\ mi' = 1
    /\ Goto("download_474")
    /\ UNCHANGED <<message, progress, can_cancel, can_proceed, flags, fields,
                   idx, total, start_progress, tool_left, old_files, old_directories,
                   lock, uipc, install, updatedir, hist>>

\* download(), lines 484-486: one -i argument per member of self.modules, each
\* naming update_filename(module, False), the seed of the module being downloaded.
SeedArgs(module) == [i \in DOMAIN modules |-> module]

\* download(), lines 474-493: the delta tool is started; it will print some
\* lines and keeps its control file <module>.zsync.
download_474 ==
    /\ pc = "download_474"
    /\ start_progress' = -1
    /\ tool_left' \in 0..MaxLines
    /\ zsyncs' = zsyncs \cup {Module}
    /\ hist' = [hist EXCEPT !.ops = Append(@, <<"download", Module>>),
                            !.seed_args = SeedArgs(Module)]
    /\ Goto("download_496")
    /\ UNCHANGED <<observed, flags, fields, mi, idx, total, old_files, old_directories,
                   lock, uipc, install, seeds, archives>>

\* The lines of the tool's output: PROGRESS <pct>, ENDPROGRESS, anything else.
Lines ==
    { [kind |-> "PROGRESS", pct |-> p] : p \in Pcts }
      \cup { [kind |-> "ENDPROGRESS", pct |-> 0], [kind |-> "other", pct |-> 0] }

\* A download that reports the distance to start with the wrong sign.
AfterLineInverted(l, prog, start) ==
    CASE l.kind = "PROGRESS" /\ l.pct = 100 -> <<Frac(1, 1), start>>
      [] l.kind = "PROGRESS" /\ l.pct # 100 /\ start = -1 -> <<Frac(0, 1), l.pct>>
      [] l.kind = "PROGRESS" /\ l.pct # 100 /\ start # -1 ->
            <<Frac(start - l.pct, 100 - start), start>>
      [] l.kind = "ENDPROGRESS" -> <<None, -1>>
      [] OTHER -> <<prog, start>>

\* download(), lines 506-523: the progress and start_progress after a line,
\* as <<progress, start_progress>> (a start_progress of -1 is None).
AfterLine(l, prog, start) ==
    CASE l.kind = "PROGRESS" /\ l.pct = 100 -> <<Frac(1, 1), start>>
      [] l.kind = "PROGRESS" /\ l.pct # 100 /\ start = -1 -> <<Frac(0, 1), l.pct>>
      [] l.kind = "PROGRESS" /\ l.pct # 100 /\ start # -1 ->
            <<Frac(l.pct - start, 100 - start), start>>
      [] l.kind = "ENDPROGRESS" -> <<None, -1>>
      [] OTHER -> <<prog, start>>

\* download(), lines 495-523: one turn of the loop.  A cancelled download kills
\* the tool, which may cut its output short.  At the end of the output the tool
\* has left no file, the published archive, or a file with another digest.
download_496 ==
    /\ pc = "download_496"
    /\ \E left \in IF cancelled THEN 0..tool_left ELSE {tool_left} :
          IF left = 0
          THEN /\ \E result \in {"none", "good", "bad"} :
                    /\ archives' = [archives EXCEPT ![Module] = result]
                    /\ hist' = [hist EXCEPT !.bad_digest = @ \/ result = "bad",
                                            !.raw = -1]
               /\ tool_left' = 0
               /\ start_progress' = -1
               /\ Goto("download_525")
               /\ UNCHANGED progress
          ELSE /\ \E l \in Lines :
                    /\ progress' = AfterLine(l, progress, start_progress)[1]
                    /\ start_progress' = AfterLine(l, progress, start_progress)[2]
                    /\ hist' = [hist EXCEPT !.raw = CASE l.kind = "PROGRESS" -> l.pct
                                                       [] l.kind = "ENDPROGRESS" -> -1
                                                       [] OTHER -> @]
               /\ tool_left' = left - 1
               /\ Goto("download_496")
               /\ UNCHANGED archives
    /\ UNCHANGED <<state, message, can_cancel, can_proceed, flags, fields, mi, idx,
                   total, old_files, old_directories, lock, uipc, install, seeds, zsyncs>>

\* download(), lines 525-528
download_525 ==
    /\ pc = "download_525"
    /\ IF cancelled THEN RaiseCancelled ELSE Continue("download_531")
    /\ UNCHANGED <<observed, flags, fields, lock, uipc, install, updatedir, hist>>

\* A download that checks only that the file exists.
VerifyNoDigest(archive) ==
    CASE archive = "none" -> "The update file was not downloaded."
      [] OTHER -> "ok"

\* download(), lines 530-550: the file exists and has the manifest's digest.
Verify(archive) ==
    CASE archive = "none" -> "The update file was not downloaded."
      [] archive = "bad" -> "The update file does not have the correct digest"
      [] OTHER -> "ok"

download_531 ==
    /\ pc = "download_531"
    /\ IF Verify(archives[Module]) = "ok"
       THEN Continue("download_552")
       ELSE RaiseError(Verify(archives[Module]))
    /\ UNCHANGED <<observed, flags, fields, lock, uipc, install, updatedir, hist>>

\* download(), lines 552-553, and update(), lines 251-252: the next module, if any.
download_552 ==
    /\ pc = "download_552"
    /\ IF cancelled
       THEN RaiseCancelled
       ELSE /\ IF mi < Len(modules)
               THEN /\ mi' = mi + 1
                    /\ Goto("download_474")
               ELSE /\ mi' = 0
                    /\ Goto("clean_old_254")
            /\ UNCHANGED <<idx, total, start_progress, tool_left, old_files,
                           old_directories>>
    /\ UNCHANGED <<observed, flags, fields, lock, uipc, install, updatedir, hist>>

\* update(), line 254: self.clean_old()
clean_old_254 ==
    /\ pc = "clean_old_254"
    /\ seeds' = CleanOld
    /\ Goto("unpack_can_cancel")
    /\ UNCHANGED <<observed, flags, fields, locals, lock, uipc, install,
                   archives, zsyncs, hist>>

\* ------------------------------------------------------------- UNPACKING
\* update(), lines 256-258
\* An update() that leaves can_cancel set when it starts to unpack.
unpack_can_cancel_kept ==
    Write("unpack_can_cancel", "unpack_progress", state, message, progress,
          TRUE, can_proceed)

unpack_can_cancel ==
    Write("unpack_can_cancel", "unpack_progress", state, message, progress,
          FALSE, can_proceed)

unpack_progress ==
    Write("unpack_progress", "unpack_state", state, message, Frac(0, 1),
          can_cancel, can_proceed)

unpack_state ==
    /\ pc = "unpack_state"
    /\ state' = UNPACKING
    /\ mi' = 1
    /\ Goto("unpack_563")
    /\ UNCHANGED <<message, progress, can_cancel, can_proceed, flags, fields,
                   idx, total, start_progress, tool_left, old_files, old_directories,
                   lock, uipc, install, updatedir, hist>>

\* unpack(), lines 563-572: the first pass counts the entries of the archive.
unpack_563 ==
    /\ pc = "unpack_563"
    /\ total' \in 0..MaxEntries
    /\ idx' = 0
    /\ hist' = [hist EXCEPT !.ops = Append(@, <<"unpack", Module>>)]
    /\ Goto("unpack_574")
    /\ UNCHANGED <<observed, flags, fields, mi, start_progress, tool_left,
                   old_files, old_directories, lock, uipc, install, updatedir>>

\* The entries an archive may hold: the update directory, update/current.json
\* with its payload, a directory, a regular file, anything else (a link, a device).
ArchiveEntries ==
    { [type |-> "dir", name |-> "update", payload |-> EmptySnapshot] }
      \cup { [type |-> "reg", name |-> "update/current.json", payload |-> p] : p \in Payloads }
      \cup { [type |-> "dir", name |-> d, payload |-> EmptySnapshot] : d \in Dirs }
      \cup { [type |-> "reg", name |-> f, payload |-> EmptySnapshot] : f \in Files }
      \cup { [type |-> "other", name |-> "a", payload |-> EmptySnapshot] }

\* os.makedirs(path): the directory and the missing directories above it.
RECURSIVE MakeDirs(_)
MakeDirs(d) == IF d = "" THEN {} ELSE {d} \cup MakeDirs(Parent(d))

\* An unpack that takes every entry of the payload, not the module's alone.
TakeWholePayload(ns, module, payload) ==
    [m \in Modules |-> IF payload[m].present THEN payload[m] ELSE ns[m]]

\* unpack(), lines 581-589: the state after update/current.json was read.
TakePayload(ns, module, payload) == [ns EXCEPT ![module] = payload[module]]

\* unpack(), line 574: on to the next entry of the archive.
UnpackNext ==
    /\ idx' = idx + 1
    /\ Goto("unpack_574")
    /\ UNCHANGED <<mi, total, start_progress, tool_left, old_files, old_directories>>

\* unpack(), lines 574-629: one entry of the archive.
unpack_574 ==
    /\ pc = "unpack_574"
    /\ idx < total
    /\ progress' = Frac(idx, total)
    /\ \E info \in ArchiveEntries :
          CASE info.name = "update" ->
                 /\ UnpackNext
                 /\ UNCHANGED <<new_state, moves, sidecar, dirs, hist>>
            [] info.name = "update/current.json" ->
                 /\ IF info.payload[Module].present
                    THEN /\ new_state' = TakePayload(new_state, Module, info.payload)
                         /\ UnpackNext
                    ELSE /\ RaiseException("KeyError")
                         /\ UNCHANGED new_state
                 /\ hist' = [hist EXCEPT !.payload[Module] = info.payload,
                                         !.has_payload = @ \cup {Module}]
                 /\ UNCHANGED <<moves, sidecar, dirs>>
            [] info.name \in Dirs /\ info.type = "dir" ->
                 /\ dirs' = dirs \cup MakeDirs(info.name)
                 /\ UnpackNext
                 /\ UNCHANGED <<new_state, moves, sidecar, hist>>
            [] info.name \in Files /\ info.type = "reg" ->
                 /\ IF Parent(info.name) = "" \/ Parent(info.name) \in dirs
                    THEN /\ sidecar' = [sidecar EXCEPT ![info.name] = "new"]
                         /\ moves' = Append(moves, info.name)
                         /\ UnpackNext
                    ELSE /\ RaiseException("IOError")
                         /\ UNCHANGED <<sidecar, moves>>
                 /\ UNCHANGED <<new_state, dirs, hist>>
            [] OTHER ->
                 /\ RaiseError("unknown type")
                 /\ UNCHANGED <<new_state, moves, sidecar, dirs, hist>>
    /\ UNCHANGED <<state, message, can_cancel, can_proceed, flags, force, current_state,
                   updates, modules, lock, uipc, current_json, disk, extra, updatedir>>

\* An unpack stage that honours a cancellation between modules.
unpack_next_cancellable ==
    /\ pc = "unpack_574"
    /\ idx = total
    /\ IF cancelled
       THEN RaiseCancelled
       ELSE /\ IF mi < Len(modules)
               THEN /\ mi' = mi + 1
                    /\ Goto("unpack_563")
               ELSE /\ mi' = 0
                    /\ Goto("finish_progress")
            /\ idx' = 0
            /\ total' = 0
            /\ UNCHANGED <<start_progress, tool_left, old_files, old_directories>>
    /\ UNCHANGED <<observed, flags, fields, lock, uipc, install, updatedir, hist>>

\* An update() that starts move_files right after the last unpack, before it
\* sets the state to FINISHING.
unpack_next_moving ==
    /\ pc = "unpack_574"
    /\ idx = total
    /\ IF mi < Len(modules)
       THEN /\ mi' = mi + 1
            /\ idx' = 0
            /\ Goto("unpack_563")
       ELSE /\ mi' = 0
            /\ idx' = 1
            /\ Goto("move_636")
    /\ total' = 0
    /\ UNCHANGED <<observed, flags, fields, start_progress, tool_left,
                   old_files, old_directories, lock, uipc, install, updatedir, hist>>

\* update(), lines 260-261: the next module, if any.
unpack_next ==
    /\ pc = "unpack_574"
    /\ idx = total
    /\ IF mi < Len(modules)
       THEN /\ mi' = mi + 1
            /\ Goto("unpack_563")
       ELSE /\ mi' = 0
            /\ Goto("finish_progress")
    /\ idx' = 0
    /\ total' = 0
    /\ UNCHANGED <<observed, flags, fields, start_progress, tool_left,
                   old_files, old_directories, lock, uipc, install, updatedir, hist>>


\* ------------------------------------------------------------- FINISHING
\* update(), lines 263-264
finish_progress ==
    Write("finish_progress", "finish_state", state, message, None, can_cancel, can_proceed)

\* An update() that saves the snapshot before move_files.
finish_state_saving ==
    /\ pc = "finish_state"
    /\ state' = FINISHING
    /\ idx' = 1
    /\ current_json' = [exists |-> TRUE, data |-> new_state]
    /\ hist' = [hist EXCEPT !.finishing = TRUE]
    /\ Goto("move_636")
    /\ UNCHANGED <<message, progress, can_cancel, can_proceed, flags, fields,
                   mi, total, start_progress, tool_left, old_files, old_directories,
                   lock, uipc, disk, sidecar, dirs, extra, updatedir>>

\* An update() that honours a cancellation when unpacking is over.
finish_state_cancellable ==
    /\ pc = "finish_state"
    /\ IF cancelled
       THEN /\ RaiseCancelled
            /\ UNCHANGED <<state, hist>>
       ELSE /\ state' = FINISHING
            /\ idx' = 1
            /\ hist' = [hist EXCEPT !.finishing = TRUE]
            /\ Goto("move_636")
            /\ UNCHANGED <<mi, total, start_progress, tool_left, old_files,
                           old_directories>>
    /\ UNCHANGED <<message, progress, can_cancel, can_proceed, flags, fields,
                   lock, uipc, install, updatedir>>

finish_state ==
    /\ pc = "finish_state"
    /\ state' = FINISHING
    /\ idx' = 1
    /\ hist' = [hist EXCEPT !.finishing = TRUE]
    /\ Goto("move_636")
    /\ UNCHANGED <<message, progress, can_cancel, can_proceed, flags, fields,
                   mi, total, start_progress, tool_left, old_files, old_directories,
                   lock, uipc, install, updatedir>>

\* flatten_path(d, key), lines 647-654
FlattenPath(d, key) ==
    UNION { IF key = "files" THEN d[m].files ELSE d[m].directories : m \in Modules }

\* The list sorted but not reversed.
SortedForward(S) ==
    CHOOSE q \in Orders(S) : \A i, j \in DOMAIN q : i < j => Rank(q[i]) < Rank(q[j])

\* list(s); sort(); reverse(), lines 665-671
SortedReverse(S) ==
    CHOOSE q \in Orders(S) : \A i, j \in DOMAIN q : i < j => Rank(q[i]) > Rank(q[j])

\* A move_files that honours a cancellation before each pending move.
move_636_cancellable ==
    /\ pc = "move_636"
    /\ idx <= Len(moves)
    /\ IF cancelled
       THEN RaiseCancelled
       ELSE /\ IF disk[moves[idx]] # "none" THEN Goto("move_638") ELSE Goto("move_640")
            /\ UNCHANGED locals
    /\ UNCHANGED <<observed, flags, fields, lock, uipc, install, updatedir, hist>>

\* move_files(), lines 636-637: the next pending move; os.path.exists(path)
move_636 ==
    /\ pc = "move_636"
    /\ idx <= Len(moves)
    /\ IF disk[moves[idx]] # "none" THEN Goto("move_638") ELSE Goto("move_640")
    /\ UNCHANGED <<observed, flags, fields, locals, lock, uipc, install, updatedir, hist>>

\* move_files(), line 638: os.unlink(path)
move_638 ==
    /\ pc = "move_638"
    /\ disk' = [disk EXCEPT ![moves[idx]] = "none"]
    /\ Goto("move_640")
    /\ UNCHANGED <<observed, flags, fields, locals, lock, uipc, current_json, sidecar,
                   dirs, extra, updatedir, hist>>

\* move_files(), line 640: os.rename(path + ".new", path), an OSError when the
\* sidecar is not there.
move_640 ==
    /\ pc = "move_640"
    /\ IF sidecar[moves[idx]] = "none"
       THEN /\ RaiseException("OSError")
            /\ UNCHANGED <<disk, sidecar, hist>>
       ELSE /\ disk' = [disk EXCEPT ![moves[idx]] = sidecar[moves[idx]]]
            /\ sidecar' = [sidecar EXCEPT ![moves[idx]] = "none"]
            /\ idx' = idx + 1
            /\ hist' = [hist EXCEPT !.moved = @ + 1]
            /\ Goto("move_636")
            /\ UNCHANGED <<mi, total, start_progress, tool_left, old_files,
                           old_directories>>
    /\ UNCHANGED <<observed, flags, fields, lock, uipc, current_json, dirs, extra,
                   updatedir>>

\* delete_obsolete(), lines 656-671, entered when move_files has returned.
delete_obsolete ==
    /\ pc = "move_636"
    /\ idx > Len(moves)
    /\ old_files' = SortedReverse(FlattenPath(current_state, "files")
                                    \ FlattenPath(new_state, "files"))
    /\ old_directories' = SortedReverse(FlattenPath(current_state, "directories")
                                          \ FlattenPath(new_state, "directories"))
    /\ idx' = 1
    /\ Goto("delete_673")
    /\ UNCHANGED <<observed, flags, fields, mi, total, start_progress, tool_left,
                   lock, uipc, install, updatedir, hist>>

\* delete_obsolete(), lines 673-677: os.unlink(i), errors ignored
delete_673 ==
    /\ pc = "delete_673"
    /\ idx <= Len(old_files)
    /\ disk' = [disk EXCEPT ![old_files[idx]] = "none"]
    /\ idx' = idx + 1
    /\ hist' = [hist EXCEPT !.removed = Append(@, old_files[idx])]
    /\ Goto("delete_673")
    /\ UNCHANGED <<observed, flags, fields, mi, total, start_progress, tool_left,
                   old_files, old_directories, lock, uipc, current_json, sidecar,
                   dirs, extra, updatedir>>

delete_678 ==
    /\ pc = "delete_673"
    /\ idx > Len(old_files)
    /\ idx' = 1
    /\ Goto("delete_679")
    /\ UNCHANGED <<observed, flags, fields, mi, total, start_progress, tool_left,
                   old_files, old_directories, lock, uipc, install, updatedir, hist>>

\* A directory os.rmdir can remove holds no file, sidecar or directory.
IsEmpty(d) ==
    /\ d \notin extra
    /\ \A f \in Files : Parent(f) = d => (disk[f] = "none" /\ sidecar[f] = "none")
    /\ \A e \in dirs : Parent(e) # d

\* delete_obsolete(), lines 679-683: os.rmdir(i), errors ignored
delete_679 ==
    /\ pc = "delete_679"
    /\ idx <= Len(old_directories)
    /\ dirs' = IF old_directories[idx] \in dirs /\ IsEmpty(old_directories[idx])
               THEN dirs \ {old_directories[idx]}
               ELSE dirs
    /\ idx' = idx + 1
    /\ hist' = [hist EXCEPT !.removed = Append(@, old_directories[idx])]
    /\ Goto("delete_679")
    /\ UNCHANGED <<observed, flags, fields, mi, total, start_progress, tool_left,
                   old_files, old_directories, lock, uipc, current_json, disk, sidecar,
                   extra, updatedir>>

\* delete_obsolete() returns to update(), line 267.
delete_683 ==
    /\ pc = "delete_679"
    /\ idx > Len(old_directories)
    /\ hist' = [hist EXCEPT !.pruned = TRUE]
    /\ old_files' = <<>>
    /\ old_directories' = <<>>
    /\ idx' = 0
    /\ Goto("save_state")
    /\ UNCHANGED <<observed, flags, fields, mi, total, start_progress, tool_left,
                   lock, uipc, install, updatedir>>

\* save_state(), lines 690-693
save_state ==
    /\ pc = "save_state"
    /\ current_json' = [exists |-> TRUE, data |-> new_state]
    /\ hist' = [hist EXCEPT !.saves = @ + 1]
    /\ Goto("clean_new")
    /\ UNCHANGED <<observed, flags, fields, locals, lock, uipc, disk, sidecar, dirs,
                   extra, updatedir>>

\* clean_new(), lines 711-714
clean_new ==
    /\ pc = "clean_new"
    /\ archives' = [m \in Modules |->
                      IF m \in { modules[i] : i \in DOMAIN modules } THEN "none"
                      ELSE archives[m]]
    /\ zsyncs' = zsyncs \ { modules[i] : i \in DOMAIN modules }
    /\ Goto("done_message")
    /\ UNCHANGED <<observed, flags, fields, locals, lock, uipc, install, seeds, hist>>

\* update(), lines 271-275
done_message ==
    Write("done_message", "done_progress", state, "None", progress, can_cancel, can_proceed)

done_progress ==
    Write("done_progress", "done_can_proceed", state, message, None, can_cancel, can_proceed)

done_can_proceed ==
    Write("done_can_proceed", "done_can_cancel", state, message, progress, can_cancel, TRUE)

done_can_cancel ==
    Write("done_can_cancel", "done_state", state, message, progress, FALSE, can_proceed)

done_state ==
    Write("done_state", "clean_old_end", DONE, message, progress, can_cancel, can_proceed)

\* ------------------------------------------------------------- the system
Worker ==
    \/ load_state \/ test_write \/ check_updates \/ check_versions \/ update_218
    \/ una_can_cancel \/ una_can_proceed \/ una_state
    \/ condition_acquire \/ ua_can_cancel \/ ua_can_proceed \/ ua_state
    \/ update_231 \/ wait_reacquire \/ update_236
    \/ prepare_progress \/ prepare_state \/ prepare_411 \/ prepare_425 \/ prepare_467
    \/ download_progress \/ download_state \/ download_474 \/ download_496
    \/ download_525 \/ download_531 \/ download_552 \/ clean_old_254
    \/ unpack_can_cancel \/ unpack_progress \/ unpack_state
    \/ unpack_563 \/ unpack_574 \/ unpack_next
    \/ finish_progress \/ finish_state
    \/ move_636 \/ move_638 \/ move_640
    \/ delete_obsolete \/ delete_673 \/ delete_678 \/ delete_679 \/ delete_683
    \/ save_state \/ clean_new
    \/ done_message \/ done_progress \/ done_can_proceed \/ done_can_cancel \/ done_state
    \/ cancelled_can_cancel \/ cancelled_can_proceed \/ cancelled_progress
    \/ cancelled_message \/ cancelled_state
    \/ error_message \/ error_can_cancel \/ error_can_proceed \/ error_state
    \/ exception_message
    \/ clean_old_end

\* A call of cancel() or proceed() by the UI, and the steps that finish it.
UICall == cancel_310 \/ proceed_284

UIFinish == cancel_313 \/ proceed_287 \/ proceed_304

Next == Worker \/ UICall \/ UIFinish

Spec == Init /\ [][Next]_vars


\* The worker thread runs whenever it can; a call the UI has begun runs to its
\* end; and a UI that sees UPDATE_AVAILABLE calls proceed() or cancel().
Fairness ==
    /\ WF_vars(Worker)
    /\ WF_vars(UIFinish)
    /\ WF_vars(state = UPDATE_AVAILABLE /\ UICall)

\* The sessions without the force flag and without files of the user's.
InitLive == Init /\ ~force /\ extra = {}

LiveSpec == InitLive /\ [][Next]_vars /\ Fairness

\* ------------------------------------------------------------- properties
\* The modules of self.modules.
Stale == { modules[i] : i \in DOMAIN modules }

\* No installed file was replaced or deleted, and current.json was not rewritten.
InstallationUntouched ==
    /\ disk = hist.disk0
    /\ current_json = hist.json0

\* Nothing outside the update directory was created, changed or deleted.
OutsideUntouched ==
    /\ InstallationUntouched
    /\ dirs = hist.dirs0
    /\ \A f \in Files : sidecar[f] = "none"
    /\ moves = <<>>

\* C1 (as claimed): Cancel safety.  Once cancel() has set the flag while the
\* state was still before UNPACKING and can_cancel was true, no installed file
\* is ever replaced or deleted and current.json is never rewritten.
C1_CancelSafety == hist.early_cancel => InstallationUntouched

\* C2: Terminal-state convergence.  With a fair worker, a delta tool whose output
\* ends and a UI that answers UPDATE_AVAILABLE, the state eventually is one of
\* UPDATE_NOT_AVAILABLE, ERROR, CANCELLED, DONE; no wakeup is lost.
C2_Convergence == <>(state \in Terminal)

C2_Witness == hist.waited /\ state = DONE /\ pc = "finished"

\* C3 (as claimed): Digest enforcement.  When a download left an archive whose
\* digest is not the manifest's, nothing outside the update directory changes
\* and the run ends in ERROR.
C3_DigestError ==
    (hist.bad_digest /\ pc = "finished") => (OutsideUntouched /\ state = ERROR)

\* C3 (amended): Digest enforcement.  When a download left an archive whose
\* digest is not the manifest's, nothing outside the update directory ever
\* changes, and the run ends in ERROR, or in CANCELLED when cancel() was
\* requested before the check that follows the tool's exit.
C3_DigestEnforced ==
    hist.bad_digest =>
        /\ OutsideUntouched
        /\ state \notin {UNPACKING, FINISHING, DONE}
        /\ pc = "finished" => (state = ERROR \/ (state = CANCELLED /\ cancelled))

C3_Witness ==
    /\ hist.bad_digest
    /\ pc = "finished"
    /\ state = ERROR
    /\ message = "The update file does not have the correct digest"

\* C4 (as claimed): Atomic per-file swap.  While move_files runs, every pending
\* destination holds its complete old content or its complete new content.
C4_AtomicSwap ==
    pc \in {"move_636", "move_638", "move_640"} =>
        \A i \in DOMAIN moves : disk[moves[i]] \in {hist.disk0[moves[i]], "new"}

\* C5: current.json is written once per successful run, only in FINISHING after
\* every pending move and the deletion of obsolete files; a run that ends in
\* ERROR or CANCELLED leaves the snapshot loaded at session start.
C5_SnapshotCommit ==
    /\ hist.saves <= 1
    /\ state = DONE => hist.saves = 1
    /\ hist.saves > 0 => /\ state \in {FINISHING, DONE}
                         /\ hist.moved = Len(moves)
                         /\ hist.pruned
    /\ current_json # hist.json0 => hist.saves > 0
    /\ state \in {ERROR, CANCELLED} => current_json = hist.json0

C5_Witness ==
    /\ state = ERROR
    /\ pc = "finished"
    /\ hist.moved > 0
    /\ hist.moved < Len(moves)

\* C6: Snapshot equivalence.  After DONE, current.json is the snapshot loaded at
\* session start with the entry of each updated module replaced by that module's
\* entry in the update/current.json of its own archive, and nothing else changed.
C6_SnapshotEquivalence ==
    state = DONE =>
        /\ current_json.exists
        /\ hist.has_payload \subseteq Stale
        /\ current_json.data =
              [m \in Modules |-> IF m \in hist.has_payload
                                 THEN hist.payload[m][m]
                                 ELSE hist.json0.data[m]]

C6_Witness ==
    /\ state = DONE
    /\ \E m \in hist.has_payload, o \in Modules \ Stale :
          /\ hist.json0.data[o].present
          /\ hist.payload[m][o] # hist.json0.data[o]

\* The paths of the old snapshot that the new snapshot no longer lists.
ObsoleteFiles ==
    FlattenPath(hist.json0.data, "files") \ FlattenPath(current_json.data, "files")

ObsoleteDirs ==
    FlattenPath(hist.json0.data, "directories")
        \ FlattenPath(current_json.data, "directories")

\* C7 (as claimed): Obsolete pruning.  After DONE no obsolete file and no
\* obsolete directory exists on disk.
C7_AllPruned ==
    state = DONE =>
        /\ \A f \in ObsoleteFiles : disk[f] = "none"
        /\ \A d \in ObsoleteDirs : d \notin dirs

\* C7 (amended): Obsolete pruning.  After DONE no obsolete file exists, and an
\* obsolete directory exists only if it is not empty; files are unlinked before
\* directories, and directories in reverse sorted order, a child before its parent.
C7_Pruned ==
    state = DONE =>
        /\ \A f \in ObsoleteFiles : disk[f] = "none"
        /\ \A d \in ObsoleteDirs : d \in dirs => ~IsEmpty(d)
        /\ { hist.removed[i] : i \in DOMAIN hist.removed } = ObsoleteFiles \cup ObsoleteDirs
        /\ \A i, j \in DOMAIN hist.removed :
              i < j => /\ ~(hist.removed[i] \in Dirs /\ hist.removed[j] \in Files)
                       /\ hist.removed[i] # Parent(hist.removed[j])
                       /\ (hist.removed[i] \in Dirs /\ hist.removed[j] \in Dirs)
                             => Rank(hist.removed[i]) > Rank(hist.removed[j])

C7_Witness ==
    /\ state = DONE
    /\ {"d", "d/e"} \subseteq ObsoleteDirs
    /\ "d/x" \in ObsoleteFiles
    /\ hist.disk0["d/x"] = "old"
    /\ {"d", "d/e"} \cap dirs = {}

\* C8: Stale-set computation.  After check_versions a name is in self.modules
\* exactly when it is in the installed snapshot and in the server manifest and
\* its versions differ or force is set; no name is there twice.
C8_StaleSet ==
    (pc = "update_218" \/ state \notin {CHECKING, ERROR}) =>
        /\ \A m \in Modules :
              m \in Stale <=>
                 /\ hist.json0.data[m].present
                 /\ updates[m].present
                 /\ (hist.json0.data[m].version # updates[m].version \/ force)
        /\ Len(modules) = Cardinality(Stale)

C8_Witness ==
    /\ pc = "update_218"
    /\ force
    /\ \E m \in Stale : hist.json0.data[m].version = updates[m].version
    /\ \E m \in Modules \ Stale : updates[m].present

\* The changes of state that update() and run() make.
Edges ==
    { <<CHECKING, UPDATE_NOT_AVAILABLE>>, <<CHECKING, UPDATE_AVAILABLE>>,
      <<CHECKING, ERROR>>,
      <<UPDATE_AVAILABLE, PREPARING>>, <<UPDATE_AVAILABLE, CANCELLED>>,
      <<PREPARING, DOWNLOADING>>, <<PREPARING, CANCELLED>>, <<PREPARING, ERROR>>,
      <<DOWNLOADING, UNPACKING>>, <<DOWNLOADING, CANCELLED>>, <<DOWNLOADING, ERROR>>,
      <<UNPACKING, FINISHING>>, <<UNPACKING, ERROR>>,
      <<FINISHING, DONE>>, <<FINISHING, ERROR>> }

\* C9: the state changes only along the edges of the state machine, and a
\* terminal state (no edge leaves one) is never left, whatever the UI calls.
C9_Edges == [][state' # state => <<state, state'>> \in Edges]_vars

C9_Witness == state = DONE /\ pc = "finished" /\ cancelled /\ uipc = "proceed_287"

\* C10: when the worker has finished, however the run ended, no seed archive
\* <module>.update of a stale module is left; on success they are gone before
\* UNPACKING begins.
C10_SeedsCleaned ==
    /\ pc = "finished" => seeds \cap Stale = {}
    /\ state \in {UNPACKING, FINISHING, DONE} => seeds \cap Stale = {}

C10_Witness ==
    /\ pc = "finished"
    /\ state = CANCELLED
    /\ Cardinality(hist.built) = Cardinality(Modules)

\* C11 (as claimed): Transient artifacts.  Once the worker has finished, however
\* the run ended (DONE, ERROR, CANCELLED), no downloaded archive
\* <module>.update.new and no control file <module>.zsync of a stale module is
\* left in the update directory.
C11_TransientsCleaned ==
    pc = "finished" => \A m \in Stale : archives[m] = "none" /\ m \notin zsyncs

\* C12: a run that is cancelled (UpdateCancelled was raised, the state becomes
\* CANCELLED) has no pending move and no .new sidecar, and has created, changed
\* or deleted nothing outside the update directory: the points where a
\* cancellation is honoured all come before the first such write.
C12_CancelledClean ==
    (state = CANCELLED \/ exc = "UpdateCancelled") => OutsideUntouched

C12_Witness ==
    /\ state = CANCELLED
    /\ pc = "finished"
    /\ \E m \in Stale : archives[m] = "good"

\* p <= q for two fractions.
Leq(p, q) == p[1] * q[2] <= q[1] * p[2]

\* The writes of progress that belong to a change of state: the one before
\* self.state is set to the next stage, and the one in the handler of run().
ResetPoints == {"download_progress", "unpack_progress", "finish_progress",
                "cancelled_progress"}

\* C13 (as claimed): Progress monotonicity within a stage.  While the state stays
\* PREPARING, DOWNLOADING or UNPACKING, a write of progress other than the reset
\* that goes with a change of state never lowers it and never makes it absent.
C13_MonotoneInStage ==
    [][(state' = state /\ state \in {PREPARING, DOWNLOADING, UNPACKING}
          /\ pc \notin ResetPoints /\ progress' # progress)
         => /\ progress' # None
            /\ progress # None => Leq(progress, progress')]_vars

\* C13 (amended): Progress monotonicity within a module.  Within one prepare(m)
\* and within one unpack(m) the values written to progress do not decrease; within
\* one phase of a download (up to ENDPROGRESS or the end of the output) they do
\* not decrease as long as the tool's percentages do not.
C13_MonotoneInModule ==
    [][/\ (pc = "prepare_425" /\ pc' = "prepare_425" /\ idx > 0)
            => (progress # None /\ progress' # None /\ Leq(progress, progress'))
       /\ (pc = "unpack_574" /\ pc' = "unpack_574" /\ idx > 0)
            => (progress # None /\ progress' # None /\ Leq(progress, progress'))
       /\ (pc = "download_496" /\ pc' = "download_496"
             /\ hist.raw # -1 /\ hist.raw' >= hist.raw)
            => (progress # None /\ progress' # None /\ Leq(progress, progress'))]_vars

C13_Witness ==
    /\ state = DOWNLOADING
    /\ pc = "download_496"
    /\ mi = 2
    /\ hist.raw = 50
    /\ start_progress = 0
    /\ progress = Frac(1, 2)

\* C14 (as claimed): Progress range.  At every instant progress is absent or a
\* number p with 0 <= p <= 1, whatever PROGRESS lines (percentages 0..100) and
\* ENDPROGRESS lines the delta tool prints.
C14_ProgressRange ==
    progress # None => (0 <= progress[1] /\ progress[1] <= progress[2])

\* C15: the UI operations write only the request flags.  A step of proceed() or
\* cancel() leaves state, message, progress, can_cancel, can_proceed and all the
\* worker's data alone; cancel() goes on to set cancelled only after it read
\* can_cancel true, proceed() goes on to set proceeded only after it read
\* can_proceed true and then state = UPDATE_AVAILABLE; each flag is set to true,
\* alone, with the condition's lock taken, and a waiting worker is notified.  The
\* observed fields change only in steps of the worker.
C15_UIWritesOnlyFlags ==
    [][/\ uipc' # uipc =>
            /\ UNCHANGED <<observed, fields, exc, locals, lock, install, updatedir>>
            /\ pc' = pc \/ (pc = "waiting" /\ pc' = "wait_reacquire")
       /\ observed' # observed => uipc' = uipc
       /\ cancelled' # cancelled =>
            /\ uipc = "cancel_313" /\ lock = "free"
            /\ cancelled' /\ proceeded' = proceeded
            /\ pc = "waiting" => pc' = "wait_reacquire"
       /\ proceeded' # proceeded =>
            /\ uipc = "proceed_304" /\ lock = "free"
            /\ proceeded' /\ cancelled' = cancelled
            /\ pc = "waiting" => pc' = "wait_reacquire"
       /\ (uipc' = "cancel_313" /\ uipc # "cancel_313") => (uipc = "idle" /\ can_cancel)
       /\ (uipc' = "proceed_287" /\ uipc # "proceed_287") => (uipc = "idle" /\ can_proceed)
       /\ (uipc' = "proceed_304" /\ uipc # "proceed_304")
            => (uipc = "proceed_287" /\ state = UPDATE_AVAILABLE)]_vars

C15_Witness ==
    /\ state = UPDATE_AVAILABLE
    /\ pc = "update_236"
    /\ hist.waited
    /\ proceeded
    /\ cancelled

\* C16: once the state has become UNPACKING the update cannot be cancelled.
\* Whatever cancel() calls are made from then on (one that read can_cancel true
\* just before the worker cleared it included), the state never becomes
\* CANCELLED, and with a fair worker the run ends in DONE or ERROR.
C16_NoCancelAfterUnpacking ==
    /\ [][(state \in {UNPACKING, FINISHING, DONE, ERROR}) => (state' # CANCELLED)]_vars
    /\ (state = UNPACKING) ~> (state \in {DONE, ERROR})

C16_Witness ==
    /\ state = DONE
    /\ pc = "finished"
    /\ cancelled
    /\ ~hist.early_cancel

\* C17 (as claimed): in every state in which the observed state is UNPACKING,
\* can_cancel is false, each write of the worker taken as a step of its own, the
\* writes of the handlers of run() included.
C17_NoCancelInUnpacking == state = UNPACKING => ~can_cancel

\* C17 (amended): while the observed state is UNPACKING, can_cancel is false as
\* long as update() runs; it is true only after unpack has raised, between the
\* handler's write of can_cancel and its write of state = ERROR.
C17_NoCancelWhileUnpacking ==
    state = UNPACKING => (can_cancel <=> pc \in {"error_can_proceed", "error_state"})

C17_Witness ==
    /\ state = UNPACKING
    /\ pc = "error_state"
    /\ exc = "unknown type"
    /\ can_cancel

\* The calls update() makes for the list mods: prepare of each module in list
\* order, then download of each, then unpack of each.
StageCalls(mods) ==
    [i \in 1..(3 * Len(mods)) |->
        << CASE i <= Len(mods) -> "prepare"
             [] i > Len(mods) /\ i <= 2 * Len(mods) -> "download"
             [] OTHER -> "unpack",
           mods[((i - 1) % Len(mods)) + 1] >>]

\* C18: Stage ordering.  The calls made so far are a prefix of: prepare of every
\* module in list order, download of every module in list order, unpack of
\* every module in list order.  When the first download starts every seed
\* archive has been built; while the state is UNPACKING every archive has been
\* downloaded and verified; and move_files starts only when every module has
\* been unpacked.
C18_StageOrder ==
    /\ Len(hist.ops) <= 3 * Len(modules)
    /\ \A i \in DOMAIN hist.ops : hist.ops[i] = StageCalls(modules)[i]
    /\ Len(hist.ops) > Len(modules) => hist.built = Stale
    /\ state = UNPACKING => \A m \in Stale : archives[m] = "good"
    /\ (pc \in {"move_636", "move_638", "move_640"} \/ hist.moved > 0)
          => Len(hist.ops) = 3 * Len(modules)

C18_Witness ==
    /\ Len(modules) = 2
    /\ Len(hist.ops) = 6
    /\ hist.moved > 0

\* C19: the worker leaves UPDATE_AVAILABLE only after the UI has set a flag.  In
\* every state with state in PREPARING .. DONE, proceeded is true; the check
\* after the wait raises UpdateCancelled whenever cancelled is set (proceeded or
\* not) and goes on to PREPARING otherwise, proceeded being set; so the state
\* after UPDATE_AVAILABLE is PREPARING when proceeded, CANCELLED when cancelled.
C19_ProceededBeforePreparing ==
    /\ [](state \in {PREPARING, DOWNLOADING, UNPACKING, FINISHING, DONE} => proceeded)
    /\ [][(pc = "update_236" /\ pc' # pc)
            => IF cancelled
               THEN pc' = "cancelled_can_cancel" /\ exc' = "UpdateCancelled"
               ELSE pc' = "prepare_progress" /\ proceeded]_vars
    /\ [][(state = UPDATE_AVAILABLE /\ state' # state)
            => \/ state' = PREPARING /\ proceeded
               \/ state' = CANCELLED /\ cancelled]_vars

C19_Witness ==
    /\ state = CANCELLED
    /\ pc = "finished"
    /\ proceeded
    /\ hist.built = {}
    /\ ~hist.waited

\* C20 (as claimed): Delta-tool seeds.  For every module being downloaded, the
\* -i arguments given to the delta tool name the seed archive <k>.update of
\* every module k of self.modules.
C20_AllSeedsPassed ==
    pc \in {"download_496", "download_525", "download_531", "download_552"}
        => { hist.seed_args[i] : i \in DOMAIN hist.seed_args } = Stale

\* C21: No destructive change before FINISHING.  As long as the worker has not
\* set the state to FINISHING (also after an ERROR or CANCELLED reached from an
\* earlier state), every installed file has its original content, no other
\* file has appeared, current.json is as loaded and no directory is gone: all
\* that was created outside the update directory is directories and .new
\* sidecars.
C21_NoDestructionBeforeFinishing ==
    ~hist.finishing =>
        /\ disk = hist.disk0
        /\ current_json = hist.json0
        /\ hist.dirs0 \subseteq dirs

C21_Witness ==
    /\ ~hist.finishing
    /\ state = ERROR
    /\ pc = "finished"
    /\ exc = "unknown type"
    /\ \E f \in Files : sidecar[f] = "new" /\ hist.disk0[f] = "old"

\* C22 (as claimed): Pending moves always drain.  Whatever verified archives were
\* unpacked, a path enqueued more than once included, every rename of move_files
\* finds its .new sidecar, and when move_files has returned every enqueued path
\* holds the newly unpacked content and has no sidecar left.
C22_MovesDrain ==
    /\ pc = "move_640" => sidecar[moves[idx]] # "none"
    /\ (pc = "delete_673" /\ idx = 1) =>
          \A i \in DOMAIN moves : disk[moves[i]] = "new" /\ sidecar[moves[i]] = "none"

=============================================================================
